---------------------------- MODULE Spec2Model ----------------------------
(***************************************************************************)
(* A model of the OpenAI reverse proxy of src/proxy_server.py: the two     *)
(* request handlers of OpenAIProxy (proxy_request, handle_options), the    *)
(* routing table of create_app, client IP resolution, header sanitization, *)
(* CORS injection and the mapping of upstream failures to responses.       *)
(*                                                                         *)
(* Python values are modelled as follows.                                  *)
(*   str / bytes      a TLA+ string                                        *)
(*   Optional[T]      <<>> for None, <<v>> for the value v                 *)
(*   CIMultiDict      a sequence of <<name, value>> pairs: names keep      *)
(*                    their letter case, lookups compare lower-cased names *)
(*   dict             a sequence of <<key, value>> pairs with pairwise     *)
(*                    different keys, in insertion order                   *)
(***************************************************************************)
EXTENDS Naturals, Sequences, FiniteSets, TLC

VARIABLES
    allowed_client_ip,  \* OpenAIProxy.allowed_client_ip: Optional[str]
    tasks,              \* one handler task per inbound request
    pool,               \* the holders of the connections of the TCPConnector in use
    call,               \* one call of a pure function: name, argument, result
    server              \* main(): where it is, whether runner is bound, the session

vars == <<allowed_client_ip, tasks, pool, call, server>>

-----------------------------------------------------------------------------
(* Bounds of the model.                                                    *)

\* the number of inbound requests that may be in flight together
MaxRequests == 2
\* the number of pieces an X-Forwarded-For value is built from
MaxXffPieces == 4
\* the number of pieces an X-Real-IP value is built from
MaxXriPieces == 1
\* the number of headers of a header multimap given to the sanitizer
MaxHeaders == 3

-----------------------------------------------------------------------------
(* Python values.                                                          *)

None == <<>>
Some(v) == <<v>>

\* the truth value Python gives an Optional[str]: None and "" are false
Truthy(o) == o # None /\ o[1] # ""

Ch(s, i) == SubSeq(s, i, i)

UpperCase == "ABCDEFGHIJKLMNOPQRSTUVWXYZ"
LowerCase == "abcdefghijklmnopqrstuvwxyz"

UpperToLower ==
    [c \in {Ch(UpperCase, i) : i \in 1..26} |->
        Ch(LowerCase, CHOOSE i \in 1..26 : Ch(UpperCase, i) = c)]

RECURSIVE LowerFrom(_, _)
LowerFrom(s, i) ==
    IF i > Len(s) THEN ""
    ELSE (IF Ch(s, i) \in DOMAIN UpperToLower THEN UpperToLower[Ch(s, i)]
          ELSE Ch(s, i)) \o LowerFrom(s, i + 1)

\* the lower-cased spelling of the header names that occur often, computed once
LowerOfName ==
    [s \in {"Host", "host", "Connection", "connection", "Keep-Alive", "TE",
            "Transfer-Encoding", "Upgrade", "X-Forwarded-For", "x-forwarded-for",
            "X-Real-IP", "x-real-ip", "Accept", "accept", "Authorization",
            "Origin", "Access-Control-Request-Method", "Content-Type",
            "Content-Encoding", "content-encoding", "Set-Cookie", "set-cookie",
            "Location", "ETag", "access-control-allow-origin",
            "Access-Control-Allow-Origin", "Access-Control-Allow-Methods",
            "Access-Control-Allow-Headers", "Access-Control-Max-Age"}
        |-> LowerFrom(s, 1)]

\* str.lower()
lower(s) == IF s \in DOMAIN LowerOfName THEN LowerOfName[s] ELSE LowerFrom(s, 1)

Whitespace == {" ", "\t"}

RECURSIVE LStrip(_)
LStrip(s) ==
    IF Len(s) > 0 /\ Ch(s, 1) \in Whitespace THEN LStrip(SubSeq(s, 2, Len(s)))
    ELSE s

RECURSIVE RStrip(_)
RStrip(s) ==
    IF Len(s) > 0 /\ Ch(s, Len(s)) \in Whitespace
    THEN RStrip(SubSeq(s, 1, Len(s) - 1))
    ELSE s

\* str.strip()
strip(s) == RStrip(LStrip(s))

RECURSIVE FindFrom(_, _, _)
FindFrom(s, sub, i) ==
    IF i + Len(sub) - 1 > Len(s) THEN 0
    ELSE IF SubSeq(s, i, i + Len(sub) - 1) = sub THEN i
    ELSE FindFrom(s, sub, i + 1)

\* str.find(sub) + 1: the position of the first occurrence, 0 when there is none
find(s, sub) == FindFrom(s, sub, 1)

\* s.split(sep)[0]
split_first(s, sep) ==
    IF find(s, sep) = 0 THEN s ELSE SubSeq(s, 1, find(s, sep) - 1)

-----------------------------------------------------------------------------
(* Header multimaps and dicts.                                             *)

RECURSIVE FirstIndex(_, _, _)
FirstIndex(H, name, i) ==
    IF i > Len(H) THEN 0
    ELSE IF lower(H[i][1]) = lower(name) THEN i
    ELSE FirstIndex(H, name, i + 1)

\* CIMultiDict.get(name): the first value under the name in any letter case
get(H, name) ==
    IF FirstIndex(H, name, 1) = 0 THEN None
    ELSE Some(H[FirstIndex(H, name, 1)][2])

\* dict[key] = value: an existing key keeps its place (d0 is d, evaluated once)
setitem(d, key, value) ==
    CHOOSE r \in {IF \E i \in 1..Len(d0) : d0[i][1] = key
                  THEN [i \in 1..Len(d0) |->
                            IF d0[i][1] = key THEN <<key, value>> ELSE d0[i]]
                  ELSE Append(d0, <<key, value>>) : d0 \in {d}} : TRUE

RECURSIVE DictFrom(_, _, _)
DictFrom(H, i, d) ==
    IF i > Len(H) THEN d
    ELSE DictFrom(H, i + 1, setitem(d, H[i][1], get(H, H[i][1])[1]))

\* dict(multidict): one entry per key as spelled, holding multidict[key],
\* which is the first value under that key in any letter case
dict(H) == DictFrom(H, 1, <<>>)

hop_by_hop_headers ==
    {"connection", "keep-alive", "proxy-authenticate", "proxy-authorization",
     "te", "trailers", "transfer-encoding", "upgrade", "host"}

\* a filter that compares the names as spelled
drop_hop_by_hop_case_sensitive(d) ==
    SelectSeq(d, LAMBDA kv : kv[1] \notin hop_by_hop_headers)

\* {k: v for k, v in d.items() if k.lower() not in hop_by_hop_headers}
drop_hop_by_hop(d) ==
    SelectSeq(d, LAMBDA kv : lower(kv[1]) \notin hop_by_hop_headers)

\* the headers handed to session.request
request_headers(H) == drop_hop_by_hop(dict(H))

\* the upstream response's headers after the hop-by-hop filter
upstream_headers(H) == drop_hop_by_hop(dict(H))

CORS_ALLOW_ORIGIN == <<"Access-Control-Allow-Origin", "*">>
CORS_ALLOW_METHODS ==
    <<"Access-Control-Allow-Methods", "GET, POST, PUT, DELETE, OPTIONS">>
CORS_ALLOW_HEADERS == <<"Access-Control-Allow-Headers", "*">>
CORS_MAX_AGE == <<"Access-Control-Max-Age", "86400">>

\* resp_headers of proxy_request: filtered, then the three CORS keys assigned
response_headers(H) ==
    setitem(setitem(setitem(upstream_headers(H),
        CORS_ALLOW_ORIGIN[1], CORS_ALLOW_ORIGIN[2]),
        CORS_ALLOW_METHODS[1], CORS_ALLOW_METHODS[2]),
        CORS_ALLOW_HEADERS[1], CORS_ALLOW_HEADERS[2])

-----------------------------------------------------------------------------
(* Client IP resolution and the access check.                              *)

\* a resolution that takes the last hop of the forwarding chain
RECURSIVE split_last(_, _)
split_last(s, sep) ==
    IF find(s, sep) = 0 THEN s
    ELSE split_last(SubSeq(s, find(s, sep) + 1, Len(s)), sep)

get_client_ip_last_hop(request) ==
    IF Truthy(get(request.headers, "X-Forwarded-For"))
    THEN Some(strip(split_last(get(request.headers, "X-Forwarded-For")[1], ",")))
    ELSE IF Truthy(get(request.headers, "X-Real-IP"))
    THEN Some(strip(get(request.headers, "X-Real-IP")[1]))
    ELSE request.remote

\* OpenAIProxy._get_client_ip
_get_client_ip(request) ==
    IF Truthy(get(request.headers, "X-Forwarded-For"))
    THEN Some(strip(split_first(get(request.headers, "X-Forwarded-For")[1], ",")))
    ELSE IF Truthy(get(request.headers, "X-Real-IP"))
    THEN Some(strip(get(request.headers, "X-Real-IP")[1]))
    ELSE request.remote

\* a check of the transport address alone
denies_by_remote_address(request) ==
    /\ Truthy(allowed_client_ip)
    /\ request.remote # allowed_client_ip

\* a check that compares the addresses without regard to letter case
denies_ignoring_case(request) ==
    /\ Truthy(allowed_client_ip)
    /\ _get_client_ip(request) # None
    /\ lower(_get_client_ip(request)[1]) # lower(allowed_client_ip[1])

\* a check that lets every request without a body through
denies_only_with_body(request) ==
    /\ Truthy(allowed_client_ip)
    /\ request.body # None
    /\ _get_client_ip(request) # allowed_client_ip

\* a preflight handler without an access check
preflight_unchecked(request) == FALSE

\* the check at the head of proxy_request: deny the request?
proxy_request_denies(request) ==
    /\ Truthy(allowed_client_ip)
    /\ _get_client_ip(request) # allowed_client_ip

\* the check at the head of handle_options: deny the preflight?
handle_options_denies(request) ==
    /\ Truthy(allowed_client_ip)
    /\ _get_client_ip(request) # allowed_client_ip

-----------------------------------------------------------------------------
(* Responses of the proxy.                                                 *)

\* web.Response(text=..., status=..., headers=...): a text body is sent as
\* text/plain
text_response(text, status, headers) ==
    [status |-> status,
     headers |-> Append(headers, <<"Content-Type", "text/plain; charset=utf-8">>),
     body |-> Some(text)]

\* web.Response(body=..., status=..., headers=...)
body_response(body, status, headers) ==
    [status |-> status, headers |-> headers, body |-> Some(body)]

access_denied_response ==
    text_response("Access denied: Client IP not allowed", 403, <<CORS_ALLOW_ORIGIN>>)

preflight_response ==
    [status |-> 200,
     headers |-> <<CORS_ALLOW_ORIGIN, CORS_ALLOW_METHODS, CORS_ALLOW_HEADERS,
                   CORS_MAX_AGE>>,
     body |-> None]

\* the exception classes that derive from aiohttp.ClientError
ClientError ==
    {"ClientConnectorError", "ClientConnectorDNSError", "ClientConnectorSSLError",
     "ConnectionTimeoutError", "ServerDisconnectedError", "ClientPayloadError"}

\* the two except clauses of proxy_request, in their order
except_response(e) ==
    IF e.type \in ClientError
    THEN text_response("Proxy error: " \o e.msg, 502, <<CORS_ALLOW_ORIGIN>>)
    ELSE text_response("Internal proxy error: " \o e.msg, 500, <<CORS_ALLOW_ORIGIN>>)

GzipMagic == "<1f8b>"

\* gzip.decompress(data): the empty input gives the empty output, a stream
\* that starts with the gzip magic gives its payload, anything else raises
gzip_decompress(data) ==
    IF data = "" THEN [raises |-> None, value |-> ""]
    ELSE IF Len(data) >= Len(GzipMagic) /\ SubSeq(data, 1, Len(GzipMagic)) = GzipMagic
    THEN [raises |-> None, value |-> SubSeq(data, Len(GzipMagic) + 1, Len(data))]
    ELSE [raises |-> Some([type |-> "BadGzipFile", msg |-> "Not a gzipped file"]),
          value |-> ""]

\* lines 150 to 168 of proxy_request, once the upstream body is read: the
\* diagnostic decompression, then the relayed response
relay_response(response, resp_headers) ==
    IF get(response.headers, "Content-Encoding") = Some("gzip")
       /\ gzip_decompress(response.body).raises # None
    THEN except_response(gzip_decompress(response.body).raises[1])
    ELSE body_response(response.body, response.status, resp_headers)

-----------------------------------------------------------------------------
(* The upstream client (aiohttp.ClientSession as create_session builds it).*)

OPENAI_API_BASE == "https://api.openai.com"

\* TCPConnector(limit=100, limit_per_host=30): there is one upstream host
limit == 100
limit_per_host == 30

\* a connector that knows the total limit alone
pool_has_room_in_total == Cardinality(pool) < limit

pool_has_room == Cardinality(pool) < limit /\ Cardinality(pool) < limit_per_host

\* What can go wrong with the upstream exchange, where in the handler it
\* surfaces, and the exception the client raises for it.  ClientTimeout(
\* total=300, connect=30): the connect timeout is raised as a ClientError,
\* the expiry of the total timeout as asyncio.TimeoutError, which is none.
Failures ==
    {[kind |-> "dns failure", at |-> "request", type |-> "ClientConnectorDNSError",
      msg |-> "Cannot connect to host api.openai.com:443 ssl:default [Name or service not known]"],
     [kind |-> "connect failure", at |-> "request", type |-> "ClientConnectorError",
      msg |-> "Cannot connect to host api.openai.com:443 ssl:default [Connect call failed]"],
     [kind |-> "tls failure", at |-> "request", type |-> "ClientConnectorSSLError",
      msg |-> "Cannot connect to host api.openai.com:443 ssl:default [SSL handshake failed]"],
     [kind |-> "connect timeout", at |-> "request", type |-> "ConnectionTimeoutError",
      msg |-> "Connection timeout to host https://api.openai.com"],
     [kind |-> "connection reset", at |-> "sent", type |-> "ServerDisconnectedError",
      msg |-> "Server disconnected"],
     [kind |-> "request timeout", at |-> "sent", type |-> "TimeoutError", msg |-> ""],
     [kind |-> "connection reset", at |-> "read", type |-> "ClientPayloadError",
      msg |-> "Response payload is not completed"],
     [kind |-> "request timeout", at |-> "read", type |-> "TimeoutError", msg |-> ""]}

-----------------------------------------------------------------------------
(* The inputs of the model.                                                *)

AllowedIP == "::a"
OtherIP == "::b"
\* the allowed address in another spelling
AliasIP == "::A"

\* the values --client can give the proxy: absent, empty, an address
Policies == {None, Some(""), Some(AllowedIP)}

\* the inbound requests of the concurrent workload
InboundRequests ==
    {[method |-> "POST", path_qs |-> "/v1/chat/completions?stream=0",
      headers |-> << <<"host", "proxy.local">>,
                     <<"X-Forwarded-For", AllowedIP \o ", " \o OtherIP>>,
                     <<"Accept", "application/json">>,
                     <<"Transfer-Encoding", "chunked">>,
                     <<"accept", "text/plain">>,
                     <<"TE", "trailers">> >>,
      remote |-> Some(OtherIP), body |-> Some("{}")],
     [method |-> "GET", path_qs |-> "/v1/models",
      headers |-> << <<"Host", "localhost:8080">>,
                     <<"X-Forwarded-For", OtherIP \o ", " \o AllowedIP>>,
                     <<"X-Real-IP", AllowedIP>>,
                     <<"Connection", "keep-alive">> >>,
      remote |-> Some(AllowedIP), body |-> None],
     [method |-> "OPTIONS", path_qs |-> "/v1/anything",
      headers |-> << <<"Origin", "http://localhost:3000">>,
                     <<"Access-Control-Request-Method", "POST">> >>,
      remote |-> Some(AllowedIP), body |-> None],
     [method |-> "OPTIONS", path_qs |-> "/v1/chat/completions",
      headers |-> << <<"Origin", "http://localhost:3000">>,
                     <<"x-real-ip", OtherIP>> >>,
      remote |-> Some(AllowedIP), body |-> None]}

\* the responses the upstream origin may give
UpstreamResponses ==
    {[status |-> 200,
      headers |-> << <<"Content-Type", "application/json">>,
                     <<"Transfer-Encoding", "chunked">>,
                     <<"Set-Cookie", "a=1">>,
                     <<"Set-Cookie", "b=2">> >>,
      body |-> "{\"data\":[]}"],
     [status |-> 302,
      headers |-> << <<"Location", "https://example.com/moved">>,
                     <<"connection", "close">>,
                     <<"access-control-allow-origin", "https://example.com">> >>,
      body |-> ""],
     [status |-> 200,
      headers |-> << <<"Content-Encoding", "gzip">>, <<"Keep-Alive", "timeout=5">> >>,
      body |-> GzipMagic \o "{\"data\":[]}"],
     [status |-> 200,
      headers |-> << <<"content-encoding", "gzip">> >>,
      body |-> "{\"data\":[]}"],
     [status |-> 304,
      headers |-> << <<"Content-Encoding", "gzip">>, <<"ETag", "v1">> >>,
      body |-> ""]}

-----------------------------------------------------------------------------
(* The handler tasks.                                                      *)

Tasks == 1..MaxRequests

\* main() in its loop of line 292: the session open, the runner set up
Serving == [pc |-> "serving", runner |-> TRUE, session |-> "open"]

\* a task before its request has arrived
IdleTask ==
    [pc |-> "idle", handler |-> "", request |-> None,
     target |-> None, calls |-> 0, sent |-> <<>>,
     response |-> None, resp_headers |-> <<>>,
     failure |-> None, out |-> None]

NoCall == [fn |-> "", arg |-> None, ret |-> None, done |-> FALSE]

\* a routing table without the preflight route
routes_without_preflight == << <<"*", "proxy_request">> >>

\* the routes of create_app, in the order of their registration
routes == << <<"OPTIONS", "handle_options">>, <<"*", "proxy_request">> >>

\* the handler of the first route that matches the method; every path matches
\* the pattern /{path:.*} of both routes
route_for(method) ==
    routes[CHOOSE i \in 1..Len(routes) :
        /\ routes[i][1] \in {method, "*"}
        /\ \A j \in 1..(i - 1) : routes[j][1] \notin {method, "*"}][2]

\* the arguments of session.request with the client's default for redirects
target_request_following_redirects(request) ==
    [method |-> request.method,
     url |-> OPENAI_API_BASE \o request.path_qs,
     headers |-> request_headers(request.headers),
     data |-> request.body,
     allow_redirects |-> TRUE]

\* the arguments of session.request for the request, its body read
target_request(request) ==
    [method |-> request.method,
     url |-> OPENAI_API_BASE \o request.path_qs,
     headers |-> request_headers(request.headers),
     data |-> request.body,
     allow_redirects |-> FALSE]

\* the server hands an inbound request to the handler its route names
Arrive(i, r) ==
    /\ tasks[i].pc = "idle"
    /\ tasks' = [tasks EXCEPT ![i] =
            [@ EXCEPT !.pc = "routed", !.handler = route_for(r.method),
                      !.request = Some(r)]]
    /\ UNCHANGED <<server, allowed_client_ip, pool, call>>

\* a handler that calls session.request before the inbound body is read
proxy_request_start_without_read(i) ==
    /\ tasks[i].pc = "routed"
    /\ tasks[i].handler = "proxy_request"
    /\ LET request == tasks[i].request[1] IN
        tasks' = [tasks EXCEPT ![i] =
            IF proxy_request_denies(request)
            THEN [@ EXCEPT !.pc = "done", !.out = Some(access_denied_response)]
            ELSE [@ EXCEPT !.pc = "request",
                           !.target = Some([target_request(request)
                                                EXCEPT !.data = None]),
                           !.calls = @ + 1]]
    /\ UNCHANGED <<server, allowed_client_ip, pool, call>>

\* proxy_request from its start to its first await: the access check, then
\* either the read of the inbound body or, when there is none, the call of
\* session.request
proxy_request_start(i) ==
    /\ tasks[i].pc = "routed"
    /\ tasks[i].handler = "proxy_request"
    /\ LET request == tasks[i].request[1] IN
        tasks' = [tasks EXCEPT ![i] =
            IF proxy_request_denies(request)
            THEN [@ EXCEPT !.pc = "done", !.out = Some(access_denied_response)]
            ELSE IF request.body # None
            THEN [@ EXCEPT !.pc = "read_body"]
            ELSE [@ EXCEPT !.pc = "request",
                           !.target = Some(target_request(request)),
                           !.calls = @ + 1]]
    /\ UNCHANGED <<server, allowed_client_ip, pool, call>>

\* await request.read() returns: session.request is called
proxy_request_body_read(i) ==
    /\ tasks[i].pc = "read_body"
    /\ tasks' = [tasks EXCEPT ![i] =
            [@ EXCEPT !.pc = "request",
                      !.target = Some(target_request(tasks[i].request[1])),
                      !.calls = @ + 1]]
    /\ UNCHANGED <<server, allowed_client_ip, pool, call>>

\* the client takes a connection of the pool and sends the request on it
upstream_send(i) ==
    /\ tasks[i].pc = "request"
    /\ pool_has_room
    /\ pool' = pool \cup {i}
    /\ tasks' = [tasks EXCEPT ![i] =
            [@ EXCEPT !.pc = "sent", !.sent = Append(@, tasks[i].target[1])]]
    /\ UNCHANGED <<server, allowed_client_ip, call>>

\* the client follows a redirection itself only if allow_redirects is set
follows_redirect(target, u) ==
    /\ target.allow_redirects
    /\ u.status \in {301, 302, 303, 307, 308}
    /\ get(u.headers, "Location") # None

\* the request the client sends when it follows the redirection
redirected(target, u) ==
    [target EXCEPT !.url = get(u.headers, "Location")[1],
                   !.method = IF u.status = 303 THEN "GET" ELSE @]

\* the status line and headers of an upstream response arrive: unless the
\* client follows a redirection, session.request returns, resp_headers is
\* built, response.read() is awaited
upstream_response(i, u) ==
    /\ tasks[i].pc = "sent"
    /\ tasks' = [tasks EXCEPT ![i] =
            IF follows_redirect(tasks[i].target[1], u)
            THEN [@ EXCEPT !.sent = Append(@, redirected(tasks[i].target[1], u))]
            ELSE [@ EXCEPT !.pc = "read", !.response = Some(u),
                           !.resp_headers = response_headers(u.headers)]]
    /\ UNCHANGED <<server, allowed_client_ip, pool, call>>

\* await response.read() returns: the response is built and returned, the
\* connection goes back to the pool
proxy_request_relay(i) ==
    /\ tasks[i].pc = "read"
    /\ tasks' = [tasks EXCEPT ![i] =
            [@ EXCEPT !.pc = "done",
                      !.out = Some(relay_response(tasks[i].response[1],
                                                  tasks[i].resp_headers))]]
    /\ pool' = pool \ {i}
    /\ UNCHANGED <<server, allowed_client_ip, call>>

\* a failure that no except clause answers
upstream_failure_unanswered(i, f) ==
    /\ tasks[i].pc = f.at
    /\ tasks' = [tasks EXCEPT ![i] =
            [@ EXCEPT !.pc = "raised", !.failure = Some(f),
                      !.response = None, !.resp_headers = <<>>]]
    /\ pool' = pool \ {i}
    /\ UNCHANGED <<server, allowed_client_ip, call>>

\* a failure that closes the session under the requests in flight
upstream_failure_closing_session(i, f) ==
    /\ tasks[i].pc = f.at
    /\ tasks' = [j \in Tasks |->
            IF j = i \/ tasks[j].pc \in {"sent", "read"}
            THEN [tasks[j] EXCEPT !.pc = "done", !.failure = Some(f),
                                  !.response = None, !.resp_headers = <<>>,
                                  !.out = Some(except_response(f))]
            ELSE tasks[j]]
    /\ pool' = {}
    /\ UNCHANGED <<server, allowed_client_ip, call>>

\* the upstream exchange fails: the client raises and releases the response
\* and the connection (if any), an except clause of proxy_request answers
upstream_failure(i, f) ==
    /\ tasks[i].pc = f.at
    /\ tasks' = [tasks EXCEPT ![i] =
            [@ EXCEPT !.pc = "done", !.failure = Some(f),
                      !.response = None, !.resp_headers = <<>>,
                      !.out = Some(except_response(f))]]
    /\ pool' = pool \ {i}
    /\ UNCHANGED <<server, allowed_client_ip, call>>

\* handle_options, which awaits nothing
handle_options(i) ==
    /\ tasks[i].pc = "routed"
    /\ tasks[i].handler = "handle_options"
    /\ tasks' = [tasks EXCEPT ![i] =
            [@ EXCEPT !.pc = "done",
                      !.out = Some(IF handle_options_denies(tasks[i].request[1])
                                   THEN access_denied_response
                                   ELSE preflight_response)]]
    /\ UNCHANGED <<server, allowed_client_ip, pool, call>>

\* the proxy after create_app: the policy set, the session open, no request
Init ==
    /\ allowed_client_ip \in {None, Some(AllowedIP)}
    /\ tasks = [i \in Tasks |-> IdleTask]
    /\ pool = {}
    /\ call = NoCall
    /\ server = Serving

Next ==
    \E i \in Tasks :
        \/ \E r \in InboundRequests : Arrive(i, r)
        \/ proxy_request_start(i)
        \/ proxy_request_body_read(i)
        \/ upstream_send(i)
        \/ \E u \in UpstreamResponses : upstream_response(i, u)
        \/ proxy_request_relay(i)
        \/ \E f \in Failures : upstream_failure(i, f)
        \/ handle_options(i)

Spec == Init /\ [][Next]_vars

-----------------------------------------------------------------------------
(* Client IP resolution on its own: every combination of forwarding        *)
(* headers and transport address, one call of _get_client_ip each.         *)

Optional(S) == {None} \cup {Some(v) : v \in S}

\* what header values are built from: addresses, the separator, white space
Pieces == {AllowedIP, OtherIP, ",", " "}

RECURSIVE Strs(_)
Strs(n) ==
    IF n = 0 THEN {""}
    ELSE Strs(n - 1) \cup {s \o p : s \in Strs(n - 1), p \in Pieces}

\* a request without a body that bears the given forwarding headers
forwarded_request(method, name, xff, xri, remote) ==
    [method |-> method, path_qs |-> "/v1/models",
     headers |-> (IF xff = None THEN <<>> ELSE << <<name, xff[1]>> >>)
                 \o (IF xri = None THEN <<>> ELSE << <<"X-Real-IP", xri[1]>> >>),
     remote |-> remote, body |-> None]

ClientIPRequests ==
    {forwarded_request("GET", name, xff, xri, remote) :
        name \in {"X-Forwarded-For", "x-forwarded-for"},
        xff \in Optional(Strs(MaxXffPieces)),
        xri \in Optional(Strs(MaxXriPieces)),
        remote \in Optional({AllowedIP, OtherIP})}

call_get_client_ip ==
    /\ call.fn = "_get_client_ip"
    /\ ~call.done
    /\ call' = [call EXCEPT !.ret = _get_client_ip(call.arg), !.done = TRUE]
    /\ UNCHANGED <<server, allowed_client_ip, tasks, pool>>

InitClientIP ==
    /\ allowed_client_ip = None
    /\ tasks = [i \in Tasks |-> IdleTask]
    /\ pool = {}
    /\ call \in {[fn |-> "_get_client_ip", arg |-> r, ret |-> None, done |-> FALSE] :
                    r \in ClientIPRequests}
    /\ server = Serving

NextClientIP == call_get_client_ip

SpecClientIP == InitClientIP /\ [][NextClientIP]_vars

-----------------------------------------------------------------------------
(* The access check on its own: every policy against requests whose        *)
(* resolved address is the allowed one, another one, the allowed one in    *)
(* another spelling, empty, malformed or missing; one request, taken       *)
(* through the first step of its handler.                                  *)

AccessRequests ==
    {forwarded_request(method, "X-Forwarded-For", xff, xri, remote) :
        method \in {"GET", "OPTIONS"},
        xff \in Optional(Strs(MaxXriPieces)),
        xri \in Optional(Strs(MaxXriPieces) \cup {AliasIP, AllowedIP \o OtherIP}),
        remote \in Optional({AllowedIP, OtherIP, AliasIP})}

InitAccess ==
    /\ allowed_client_ip \in Policies
    /\ tasks = [i \in Tasks |-> IdleTask]
    /\ pool = {}
    /\ call = NoCall
    /\ server = Serving

NextAccess ==
    \/ \E r \in AccessRequests : Arrive(1, r)
    \/ proxy_request_start(1)
    \/ handle_options(1)

SpecAccess == InitAccess /\ [][NextAccess]_vars

-----------------------------------------------------------------------------
(* Header sanitization on its own: every header multimap of a few headers, *)
(* one run of the request side or of the response side each.               *)

HeaderPairs ==
    {<<"Host", "api.local">>, <<"TE", "trailers">>, <<"Accept", "text/plain">>,
     <<"Set-Cookie", "a=1">>, <<"Set-Cookie", "b=2">>, <<"set-cookie", "c=3">>}

RECURSIVE HeaderMultimaps(_)
HeaderMultimaps(n) ==
    IF n = 0 THEN {<<>>}
    ELSE HeaderMultimaps(n - 1)
         \cup {Append(H, h) : H \in HeaderMultimaps(n - 1), h \in HeaderPairs}

call_request_headers ==
    /\ call.fn = "request_headers"
    /\ ~call.done
    /\ call' = [call EXCEPT !.ret = request_headers(call.arg), !.done = TRUE]
    /\ UNCHANGED <<server, allowed_client_ip, tasks, pool>>

call_upstream_headers ==
    /\ call.fn = "upstream_headers"
    /\ ~call.done
    /\ call' = [call EXCEPT !.ret = upstream_headers(call.arg), !.done = TRUE]
    /\ UNCHANGED <<server, allowed_client_ip, tasks, pool>>

InitSanitize ==
    /\ allowed_client_ip = None
    /\ tasks = [i \in Tasks |-> IdleTask]
    /\ pool = {}
    /\ call \in {[fn |-> fn, arg |-> H, ret |-> <<>>, done |-> FALSE] :
                    fn \in {"request_headers", "upstream_headers"},
                    H \in HeaderMultimaps(MaxHeaders)}
    /\ server = Serving

NextSanitize == call_request_headers \/ call_upstream_headers

SpecSanitize == InitSanitize /\ [][NextSanitize]_vars

-----------------------------------------------------------------------------
(* Properties.                                                             *)

\* the multimap carries the header: the name in any letter case, the value
has_header(headers, name, value) ==
    \E k \in 1..Len(headers) :
        lower(headers[k][1]) = lower(name) /\ headers[k][2] = value

has_cors_headers(headers) ==
    /\ has_header(headers, "Access-Control-Allow-Origin", "*")
    /\ has_header(headers, "Access-Control-Allow-Methods",
                  "GET, POST, PUT, DELETE, OPTIONS")
    /\ has_header(headers, "Access-Control-Allow-Headers", "*")

\* an allowed client IP is configured: --client was given an address
Configured == allowed_client_ip # None /\ allowed_client_ip[1] # ""

\* the request of the task resolves to another address than the allowed one
Mismatch(i) ==
    /\ tasks[i].request # None
    /\ Configured
    /\ _get_client_ip(tasks[i].request[1]) # allowed_client_ip

\* the task never used the session and nothing went upstream for it
NoUpstream(i) ==
    /\ tasks[i].calls = 0
    /\ tasks[i].target = None
    /\ tasks[i].sent = <<>>
    /\ i \notin pool

\* C1: every outbound response, on every path through proxy_request and
\* handle_options, carries the three CORS headers with their fixed values.
C1_CorsOnEveryResponse ==
    \A i \in Tasks :
        tasks[i].out # None => has_cors_headers(tasks[i].out[1].headers)

\* C2: with an allowed IP configured, a request to proxy_request that resolves
\* to another address is answered 403 with a body that names the denial, and
\* at no point of any interleaving is the session used or a request sent
\* upstream for it.
C2_DeniedNeverDispatched ==
    \A i \in Tasks :
        (tasks[i].handler = "proxy_request" /\ Mismatch(i)) =>
            /\ NoUpstream(i)
            /\ tasks[i].pc \in {"routed", "done"}
            /\ tasks[i].pc = "done" =>
                /\ tasks[i].out[1].status = 403
                /\ find(tasks[i].out[1].body[1], "Access denied") # 0

\* a request was denied by proxy_request while another one was upstream
C2_Witness ==
    \E i, j \in Tasks :
        /\ i # j
        /\ tasks[i].handler = "proxy_request" /\ Mismatch(i)
        /\ tasks[i].pc = "done"
        /\ tasks[j].pc = "sent"

\* p is the first comma-separated token of v: what precedes the first comma,
\* or all of v when it holds none
IsFirstToken(p, v) ==
    \E n \in 0..Len(v) :
        /\ p = SubSeq(v, 1, n)
        /\ \A k \in 1..n : Ch(v, k) # ","
        /\ n = Len(v) \/ Ch(v, n + 1) = ","

\* t is s without the white space around it
IsTrimmed(t, s) ==
    \E a \in 0..Len(s) : \E b \in a..Len(s) :
        /\ t = SubSeq(s, a + 1, b)
        /\ \A k \in (1..a) \cup ((b + 1)..Len(s)) : Ch(s, k) \in Whitespace
        /\ t = "" \/ (Ch(t, 1) \notin Whitespace /\ Ch(t, Len(t)) \notin Whitespace)

\* the value of the header of the call's request, None when it bears none
Forwarded(name) == get(call.arg.headers, name)

\* the resolved address is the trimmed first token of the X-Forwarded-For value
ResolvedFromXff ==
    /\ call.ret # None
    /\ \E n \in 0..Len(Forwarded("X-Forwarded-For")[1]) :
        /\ IsFirstToken(SubSeq(Forwarded("X-Forwarded-For")[1], 1, n),
                        Forwarded("X-Forwarded-For")[1])
        /\ IsTrimmed(call.ret[1], SubSeq(Forwarded("X-Forwarded-For")[1], 1, n))

\* the resolved address is the trimmed X-Real-IP value
ResolvedFromXri ==
    /\ call.ret # None
    /\ IsTrimmed(call.ret[1], Forwarded("X-Real-IP")[1])

\* the examples of the precedence: with X the allowed address, a chain that
\* starts with X resolves to X, and a chain that starts with another address
\* does not, whatever X-Real-IP and the remote address say
ChainExamples ==
    /\ Forwarded("X-Forwarded-For") = Some(AllowedIP \o ", " \o OtherIP)
        => call.ret = Some(AllowedIP)
    /\ Forwarded("X-Forwarded-For") = Some(OtherIP \o ", " \o AllowedIP)
        => call.ret # Some(AllowedIP)

\* C3 as stated: X-Forwarded-For decides whenever it is present, whatever its
\* value; else X-Real-IP whenever it is present; else the remote address.
C3_PresentHeaderDecides ==
    (call.fn = "_get_client_ip" /\ call.done) =>
        /\ IF Forwarded("X-Forwarded-For") # None THEN ResolvedFromXff
           ELSE IF Forwarded("X-Real-IP") # None THEN ResolvedFromXri
           ELSE call.ret = call.arg.remote
        /\ ChainExamples

\* C3, amended: X-Forwarded-For decides when it is present with a value that
\* is not empty: the resolved address is its first comma-separated token,
\* trimmed; else X-Real-IP decides when it is present with a value that is not
\* empty: its trimmed value; else the remote address is the resolved address.
C3_NonEmptyHeaderDecides ==
    (call.fn = "_get_client_ip" /\ call.done) =>
        /\ IF Truthy(Forwarded("X-Forwarded-For")) THEN ResolvedFromXff
           ELSE IF Truthy(Forwarded("X-Real-IP")) THEN ResolvedFromXri
           ELSE call.ret = call.arg.remote
        /\ ChainExamples

\* the chain "other, X" was resolved, with X-Real-IP and the remote address X
C3_Witness ==
    /\ call.fn = "_get_client_ip" /\ call.done
    /\ Forwarded("X-Forwarded-For") = Some(OtherIP \o ", " \o AllowedIP)
    /\ Forwarded("X-Real-IP") = Some(AllowedIP)
    /\ call.arg.remote = Some(AllowedIP)
    /\ call.ret = Some(OtherIP)

\* the failure kinds that lie on the upstream side of the proxy
UpstreamFailureKinds ==
    {"dns failure", "connect failure", "tls failure", "connect timeout",
     "connection reset", "request timeout"}

\* the body is plain text that holds the word, in any letter case
has_text(response, word) ==
    /\ response.body # None
    /\ find(lower(response.body[1]), word) # 0
    /\ has_header(response.headers, "Content-Type", "text/plain; charset=utf-8")

\* C4: a request whose upstream exchange runs into the total request timeout
\* is answered 502, not 500.
C4_TimeoutIs502 ==
    \A i \in Tasks :
        (tasks[i].failure # None /\ tasks[i].failure[1].kind = "request timeout") =>
            /\ tasks[i].pc = "done"
            /\ tasks[i].out # None
            /\ tasks[i].out[1].status = 502

\* C5: every upstream-side failure is answered 502 with a plain-text body that
\* holds the word error, every other failure 500 with a plain-text body, and
\* every failure is answered.
C5_FailureMapping ==
    \A i \in Tasks :
        /\ tasks[i].failure # None =>
            /\ tasks[i].pc = "done" /\ tasks[i].out # None
            /\ IF tasks[i].failure[1].kind \in UpstreamFailureKinds
               THEN tasks[i].out[1].status = 502 /\ has_text(tasks[i].out[1], "error")
               ELSE tasks[i].out[1].status = 500 /\ has_text(tasks[i].out[1], "")
        /\ (tasks[i].pc = "done" /\ tasks[i].out[1].status = 500) =>
            has_text(tasks[i].out[1], "")

\* the task is past the access check of its handler
Checked(i) == tasks[i].pc \notin {"idle", "routed"}

\* the handler of the task denied the request
Denied(i) == tasks[i].pc = "done" /\ tasks[i].out[1].status = 403

\* C6: the access decision of either handler is a function of the policy and
\* the resolved address alone: without a configured address every request is
\* allowed, whatever it resolves to; with the address X configured a request
\* is allowed exactly if it resolves to the string X.
C6_AccessDecision ==
    \A i \in Tasks :
        Checked(i) => (Denied(i) <=> Mismatch(i))

\* the address X is configured and a request that resolves to X in another
\* spelling was denied
C6_Witness ==
    \E i \in Tasks :
        /\ Checked(i) /\ Denied(i)
        /\ allowed_client_ip = Some(AllowedIP)
        /\ _get_client_ip(tasks[i].request[1]) = Some(AliasIP)

\* C7: an OPTIONS request, on any path, goes to handle_options and nothing
\* goes upstream for it, allowed or denied; allowed, it is answered 200 with
\* no body, the three CORS headers and Access-Control-Max-Age: 86400.
C7_PreflightIsLocal ==
    \A i \in Tasks :
        (tasks[i].request # None /\ tasks[i].request[1].method = "OPTIONS") =>
            /\ tasks[i].handler = "handle_options"
            /\ NoUpstream(i)
            /\ tasks[i].pc \in {"routed", "done"}
            /\ (tasks[i].pc = "done" /\ ~Mismatch(i)) =>
                /\ tasks[i].out[1].status = 200
                /\ tasks[i].out[1].body = None
                /\ has_cors_headers(tasks[i].out[1].headers)
                /\ has_header(tasks[i].out[1].headers, "Access-Control-Max-Age", "86400")

\* an allowed preflight was answered while another request was upstream
C7_Witness ==
    \E i, j \in Tasks :
        /\ tasks[i].request # None /\ tasks[i].request[1].method = "OPTIONS"
        /\ tasks[i].pc = "done" /\ ~Mismatch(i)
        /\ tasks[j].pc = "sent"

\* the nine hop-by-hop header names
HopByHopNames ==
    {"connection", "keep-alive", "proxy-authenticate", "proxy-authorization",
     "te", "trailers", "transfer-encoding", "upgrade", "host"}

\* none of the names of the headers is a hop-by-hop name in any letter case
no_hop_by_hop(headers) ==
    \A k \in 1..Len(headers) : lower(headers[k][1]) \notin HopByHopNames

\* C8: no hop-by-hop header name, in any letter case, is among the headers of
\* a request handed to the session or sent upstream, or among the headers of
\* an outbound response.
C8_NoHopByHop ==
    \A i \in Tasks :
        /\ tasks[i].target # None => no_hop_by_hop(tasks[i].target[1].headers)
        /\ \A k \in 1..Len(tasks[i].sent) : no_hop_by_hop(tasks[i].sent[k].headers)
        /\ tasks[i].out # None => no_hop_by_hop(tasks[i].out[1].headers)

\* a request that bore hop-by-hop headers was relayed, and so was an upstream
\* response that bore some
C8_Witness ==
    \E i \in Tasks :
        /\ tasks[i].pc = "done" /\ tasks[i].response # None
        /\ ~no_hop_by_hop(tasks[i].request[1].headers)
        /\ ~no_hop_by_hop(tasks[i].response[1].headers)
        /\ tasks[i].sent # <<>>
        /\ tasks[i].out[1].status = tasks[i].response[1].status

\* the headers of H that are not hop-by-hop, in their order
NotHopByHop(H) ==
    SelectSeq(H, LAMBDA h : lower(h[1]) \notin HopByHopNames)

\* C9: sanitization keeps every header that is not hop-by-hop, with its value,
\* in the same relative order, each occurrence of a repeated name included.
C9_SanitizeKeepsTheRest ==
    (call.fn \in {"request_headers", "upstream_headers"} /\ call.done) =>
        NotHopByHop(call.ret) = NotHopByHop(call.arg)

\* C10: an upstream response that was received in full is relayed with the
\* upstream's status code and the upstream's body.
C10_StatusAndBodyRelayed ==
    \A i \in Tasks :
        (tasks[i].pc = "done" /\ tasks[i].response # None) =>
            /\ tasks[i].out[1].status = tasks[i].response[1].status
            /\ tasks[i].out[1].body = Some(tasks[i].response[1].body)

-----------------------------------------------------------------------------
\* the task relayed the upstream response: the return of lines 166-168
Relayed(i) ==
    /\ tasks[i].pc = "done"
    /\ tasks[i].response # None
    /\ tasks[i].out[1].headers = tasks[i].resp_headers

\* how many entries of the multimap bear the name, in any letter case
count_header(headers, name) ==
    Cardinality({k \in 1..Len(headers) : lower(headers[k][1]) = lower(name)})

\* C11: on the success path the outbound header multimap holds exactly one
\* entry for each of the three CORS header names, each with its fixed value,
\* whatever CORS headers the upstream response carried and in whatever case.
C11_OneEntryPerCorsHeader ==
    \A i \in Tasks :
        Relayed(i) =>
            \A h \in {CORS_ALLOW_ORIGIN, CORS_ALLOW_METHODS, CORS_ALLOW_HEADERS} :
                /\ count_header(tasks[i].out[1].headers, h[1]) = 1
                /\ has_header(tasks[i].out[1].headers, h[1], h[2])

\* C15: an upstream response with Content-Encoding: gzip is relayed with the
\* upstream's status, its body unmodified and its Content-Encoding header,
\* whether the body is valid gzip, invalid gzip or empty.
C15_GzipNeverChangesTheRelay ==
    \A i \in Tasks :
        (/\ tasks[i].pc = "done"
         /\ tasks[i].response # None
         /\ get(tasks[i].response[1].headers, "Content-Encoding") = Some("gzip")) =>
            /\ tasks[i].out[1].status = tasks[i].response[1].status
            /\ tasks[i].out[1].body = Some(tasks[i].response[1].body)
            /\ has_header(tasks[i].out[1].headers, "Content-Encoding", "gzip")

-----------------------------------------------------------------------------
(* Two requests that bear the same forwarding headers and come from the     *)
(* same remote address, and differ in the rest: the first is a GET without  *)
(* a body, the second a preflight, or a POST to another path with a query,  *)
(* a body and more headers.                                                 *)

variant(r, method) ==
    IF method = "OPTIONS" THEN [r EXCEPT !.method = "OPTIONS"]
    ELSE [r EXCEPT !.method = method,
                   !.path_qs = "/v1/chat/completions?stream=true",
                   !.headers = << <<"Authorization", "Bearer sk-1">> >> \o @
                               \o << <<"Content-Type", "application/json">> >>,
                   !.body = Some("{}")]

VariantMethods == {"OPTIONS", "POST"}

InitPair == InitAccess

NextPair ==
    \/ /\ tasks[1].pc = "idle"
       /\ \E r \in AccessRequests : r.method = "GET" /\ Arrive(1, r)
    \/ /\ tasks[1].request # None
       /\ \E m \in VariantMethods : Arrive(2, variant(tasks[1].request[1], m))
    \/ \E i \in {1, 2} : proxy_request_start(i)
    \/ handle_options(2)

SpecPair == InitPair /\ [][NextPair]_vars

\* the forwarding headers and the remote address of the task's request
forwarding(i) ==
    <<get(tasks[i].request[1].headers, "X-Forwarded-For"),
      get(tasks[i].request[1].headers, "X-Real-IP"),
      tasks[i].request[1].remote>>

\* C12: for every policy and every combination of X-Forwarded-For, X-Real-IP
\* and remote address, handle_options denies a preflight exactly if
\* proxy_request denies a request with the same forwarding headers and remote
\* address.
C12_PreflightDeniesAlike ==
    \A i, j \in Tasks :
        (/\ Checked(i) /\ tasks[i].handler = "proxy_request"
         /\ Checked(j) /\ tasks[j].handler = "handle_options"
         /\ forwarding(i) = forwarding(j)) =>
            (Denied(i) <=> Denied(j))

\* a request and a preflight that the forwarding header alone makes denied,
\* and a pair that is allowed
C12_Witness ==
    /\ Checked(1) /\ tasks[1].handler = "proxy_request"
    /\ Checked(2) /\ tasks[2].handler = "handle_options"
    /\ forwarding(1) = forwarding(2)
    /\ Configured
    /\ tasks[2].request[1].remote = allowed_client_ip
    /\ Denied(1) /\ Denied(2)

\* the two tasks were decided alike, or do not agree on the forwarding data
SameDecision(i, j) ==
    (/\ Checked(i) /\ Checked(j)
     /\ forwarding(i) = forwarding(j)) =>
        (Denied(i) <=> Denied(j))

\* C20: the access decision depends on the configured allowed IP, the values
\* of X-Forwarded-For and X-Real-IP and the remote address alone: requests
\* that agree on these and differ in method, path, query, body or other
\* headers are decided alike; and no step of a handler changes the configured
\* allowed IP.
C20_DecisionDependsOnForwardingOnly ==
    [][/\ allowed_client_ip' = allowed_client_ip
       /\ \A i, j \in Tasks : SameDecision(i, j)']_vars

\* a GET and a POST to another path, with a query, a body and further
\* headers, from the allowed remote address and denied both for their
\* X-Forwarded-For
C20_Witness ==
    /\ Configured
    /\ Denied(1) /\ Denied(2)
    /\ forwarding(1) = forwarding(2)
    /\ tasks[1].request[1].remote = allowed_client_ip
    /\ tasks[1].request[1].method = "GET"
    /\ tasks[2].request[1].method = "POST"
    /\ tasks[1].request[1].path_qs # tasks[2].request[1].path_qs
    /\ tasks[1].request[1].body # tasks[2].request[1].body
    /\ tasks[1].request[1].headers # tasks[2].request[1].headers

-----------------------------------------------------------------------------
\* C13: over its whole lifetime an inbound request causes at most one call of
\* session.request and at most one request on the wire: none is sent again
\* after a failure or a timeout, none follows a 3xx response.
C13_AtMostOneUpstreamRequest ==
    \A i \in Tasks :
        /\ tasks[i].calls <= 1
        /\ Len(tasks[i].sent) <= 1

\* a request answered after its upstream request failed or timed out and a
\* request answered with the upstream's redirection, one request sent for each
C13_Witness ==
    \E i, j \in Tasks :
        /\ tasks[i].pc = "done" /\ tasks[i].failure # None
        /\ tasks[i].failure[1].at \in {"sent", "read"}
        /\ Len(tasks[i].sent) = 1
        /\ Relayed(j)
        /\ tasks[j].out[1].status = 302
        /\ has_header(tasks[j].out[1].headers, "Location", "https://example.com/moved")
        /\ Len(tasks[j].sent) = 1

\* the request that session.request was given for the inbound request
wellformed_target(target, request) ==
    /\ no_hop_by_hop(target.headers)
    /\ target.headers = request_headers(request.headers)
    /\ target.data = request.body

\* C17: the upstream request is dispatched only after the access check has
\* allowed the request, the inbound headers are sanitized and the inbound
\* body is read completely; the outbound response of a dispatched request is
\* built only after the upstream exchange is over, the upstream body read.
C17_DispatchAndRelayInOrder ==
    \A i \in Tasks :
        /\ tasks[i].pc \in {"idle", "routed", "read_body"} => NoUpstream(i)
        /\ ~NoUpstream(i) =>
            /\ ~Mismatch(i)
            /\ wellformed_target(tasks[i].target[1], tasks[i].request[1])
            /\ \A k \in 1..Len(tasks[i].sent) :
                wellformed_target(tasks[i].sent[k], tasks[i].request[1])
        /\ tasks[i].pc \in {"request", "sent", "read"} => tasks[i].out = None
        /\ (tasks[i].out # None /\ ~NoUpstream(i)) =>
            /\ tasks[i].pc = "done"
            /\ tasks[i].failure # None \/ tasks[i].response # None

\* under a configured policy: a POST with a body and hop-by-hop headers went
\* upstream with its body and was relayed, while another request waits for
\* the upstream's body
C17_Witness ==
    \E i, j \in Tasks :
        /\ Configured
        /\ Relayed(i)
        /\ tasks[i].request[1].body # None
        /\ ~no_hop_by_hop(tasks[i].request[1].headers)
        /\ tasks[i].sent = <<tasks[i].target[1]>>
        /\ tasks[i].sent[1].data = tasks[i].request[1].body
        /\ tasks[j].pc = "read" /\ tasks[j].out = None

-----------------------------------------------------------------------------
\* the step is taken for task i: it leaves the other tasks and their
\* connections as they are
StepOf(i) ==
    \A j \in Tasks \ {i} :
        /\ tasks'[j] = tasks[j]
        /\ (j \in pool') = (j \in pool)

\* two answered tasks with the same request and the same upstream outcome
\* returned the same response
SameOutcome(i, j) ==
    (/\ tasks[i].pc = "done" /\ tasks[j].pc = "done"
     /\ tasks[i].request = tasks[j].request
     /\ tasks[i].response = tasks[j].response
     /\ tasks[i].failure = tasks[j].failure) =>
        tasks[i].out = tasks[j].out

\* C14: requests are isolated: every step, a denial, an upstream failure, a
\* timeout and an internal fault included, belongs to one request, leaves the
\* server serving, the policy as it is and every other request with its
\* connection untouched; an answered request is never changed; and the
\* response of a request is determined by its own request and its own
\* upstream outcome, whatever the other requests did meanwhile.
C14_RequestsAreIsolated ==
    [][/\ \E i \in Tasks : StepOf(i)
       /\ server' = server
       /\ allowed_client_ip' = allowed_client_ip
       /\ \A j \in Tasks : tasks[j].pc = "done" => tasks'[j] = tasks[j]
       /\ \A i, j \in Tasks : SameOutcome(i, j)']_vars

\* one request ended in a failure after it was sent, the other one, in flight
\* at the same time, was relayed with the upstream's 200
C14_Witness ==
    \E i, j \in Tasks :
        /\ tasks[i].pc = "done" /\ tasks[i].failure # None
        /\ tasks[i].failure[1].at \in {"sent", "read"}
        /\ tasks[i].out[1].status \in {500, 502}
        /\ Relayed(j) /\ tasks[j].out[1].status = 200
        /\ server.pc = "serving"

-----------------------------------------------------------------------------
(* The proxy under a fair scheduler and a fair environment: the event loop  *)
(* runs every handler that is ready, the inbound body arrives, and the      *)
(* upstream answers or fails or a timeout of the session expires.           *)

\* the requests that proxy_request handles, the upstream responses that are
\* relayed or meet a fault inside the handler, the timeouts of the session
FairRequests == {r \in InboundRequests : r.method # "OPTIONS"}

FairResponses ==
    {u \in UpstreamResponses : u.status = 200 /\ get(u.headers, "Keep-Alive") = None}

FairFailures == {f \in Failures : f.type \in {"ConnectionTimeoutError", "TimeoutError"}}

\* the steps of proxy_request for task i, those its awaits complete with included
handle(i) ==
    \/ proxy_request_start(i)
    \/ proxy_request_body_read(i)
    \/ upstream_send(i)
    \/ \E u \in FairResponses : upstream_response(i, u)
    \/ proxy_request_relay(i)
    \/ \E f \in FairFailures : upstream_failure(i, f)

InitFair == Init

NextFair ==
    \E i \in Tasks :
        \/ \E r \in FairRequests : Arrive(i, r)
        \/ handle(i)

SpecFair == InitFair /\ [][NextFair]_vars /\ \A i \in Tasks : WF_vars(handle(i))

\* the terminal states of a request
DENIED(i) == tasks[i].pc = "done" /\ tasks[i].calls = 0
FAILED(i) == tasks[i].pc = "done" /\ tasks[i].calls > 0 /\ ~Relayed(i)
COMPLETE(i) == Relayed(i)

\* the task is in exactly one terminal state and has its one response
Terminal(i) ==
    /\ tasks[i].out # None
    /\ Cardinality({t \in {"DENIED", "FAILED", "COMPLETE"} :
            \/ t = "DENIED" /\ DENIED(i)
            \/ t = "FAILED" /\ FAILED(i)
            \/ t = "COMPLETE" /\ COMPLETE(i)}) = 1

-----------------------------------------------------------------------------
(* The connection pool at its limits.  Beside the requests that are         *)
(* followed step by step, up to `limit` further requests of the proxy are   *)
(* in flight, of which only the connection each one holds is kept; they are *)
(* alike, so they take and return their connections in one fixed order.     *)
(* Every request goes to the one host of OPENAI_API_BASE.                   *)

Others == {MaxRequests + k : k \in 1..limit}

others_in_flight == Cardinality(pool \cap Others)

\* one more of the other requests takes a connection and is sent
other_send ==
    /\ pool_has_room
    /\ others_in_flight < limit
    /\ pool' = pool \cup {MaxRequests + others_in_flight + 1}
    /\ UNCHANGED <<server, allowed_client_ip, tasks, call>>

\* one of the other requests is over: its connection goes back to the pool
other_release ==
    /\ others_in_flight > 0
    /\ pool' = pool \ {MaxRequests + others_in_flight}
    /\ UNCHANGED <<server, allowed_client_ip, tasks, call>>

PoolRequests == {r \in InboundRequests : r.method = "GET"}

PoolResponses == {u \in UpstreamResponses : u.status = 304}

PoolFailures == {f \in Failures : f.type \in {"ConnectionTimeoutError", "TimeoutError"}}

InitPool ==
    /\ allowed_client_ip = None
    /\ tasks = [i \in Tasks |-> IdleTask]
    /\ pool = {}
    /\ call = NoCall
    /\ server = Serving

NextPool ==
    \/ other_send
    \/ other_release
    \/ \E i \in Tasks :
        \/ \E r \in PoolRequests : Arrive(i, r)
        \/ proxy_request_start(i)
        \/ upstream_send(i)
        \/ \E u \in PoolResponses : upstream_response(i, u)
        \/ proxy_request_relay(i)
        \/ \E f \in PoolFailures : upstream_failure(i, f)

SpecPool == InitPool /\ [][NextPool]_vars

\* the pool has no free connection for the host
exhausted == Cardinality(pool) >= limit \/ Cardinality(pool) >= limit_per_host

\* C18: the connections in use never exceed the total limit (100) nor the
\* limit per host (30); a request that needs a connection while the limit is
\* reached is not dispatched, and stays so until a connection is released or
\* its own timeout expires; once a connection is free a waiting request can
\* take it.
C18_PoolLimits ==
    /\ Cardinality(pool) <= limit
    /\ Cardinality(pool) <= limit_per_host
    /\ \A i \in Tasks :
        tasks[i].pc = "request" =>
            /\ i \notin pool /\ tasks[i].sent = <<>> /\ tasks[i].out = None
            /\ exhausted => ~ENABLED upstream_send(i)
            /\ exhausted => ENABLED (\E f \in PoolFailures :
                                f.at = "request" /\ upstream_failure(i, f))
            /\ ~exhausted => ENABLED upstream_send(i)

\* thirty connections in use, one of them by a request that is followed,
\* while another request waits for a connection
C18_Witness ==
    /\ Cardinality(pool) = limit_per_host
    /\ \E i, j \in Tasks :
        /\ i \in pool /\ tasks[i].pc \in {"sent", "read"}
        /\ tasks[j].pc = "request" /\ tasks[j].sent = <<>>

-----------------------------------------------------------------------------
(* main() from the return of create_app to its end.  It is interrupted by   *)
(* Ctrl+C or stopped by a server error.  Where main awaits, the interrupt   *)
(* reaches it as CancelledError (asyncio.run cancels the main task) and in  *)
(* any case runs the finally clause.  Between two awaits it reaches main    *)
(* only on an interpreter whose asyncio.run leaves SIGINT to Python's       *)
(* default handler, which raises KeyboardInterrupt in the code that runs.   *)

\* after line 272: the session created by create_app, runner not yet assigned
Created == [pc |-> "created", runner |-> FALSE, session |-> "open"]

\* where main awaits: runner.setup(), site.start(), asyncio.sleep
Awaits == {"setup", "start", "serving"}

Raised == {"KeyboardInterrupt", "CancelledError", "OSError"}

\* lines 274-281: the log lines, then the try is entered
main_log ==
    /\ server.pc = "created"
    /\ server' = [server EXCEPT !.pc = "try"]
    /\ UNCHANGED <<allowed_client_ip, tasks, pool, call>>

\* line 283: runner = web.AppRunner(app)
main_runner ==
    /\ server.pc = "try"
    /\ server' = [server EXCEPT !.pc = "setup", !.runner = TRUE]
    /\ UNCHANGED <<allowed_client_ip, tasks, pool, call>>

\* line 284: await runner.setup()
main_setup ==
    /\ server.pc = "setup"
    /\ server' = [server EXCEPT !.pc = "start"]
    /\ UNCHANGED <<allowed_client_ip, tasks, pool, call>>

\* lines 285-289: await site.start(); the server serves from here on
main_start ==
    /\ server.pc = "start"
    /\ server' = [server EXCEPT !.pc = "serving"]
    /\ UNCHANGED <<allowed_client_ip, tasks, pool, call>>

\* an exception is raised in main: before the try it leaves main, inside the
\* try an except clause or none takes it and the finally clause is next
main_raise(e) ==
    /\ \/ server.pc \in Awaits
       \/ server.pc \in {"created", "try"} /\ e = "KeyboardInterrupt"
    /\ server' = [server EXCEPT !.pc = IF server.pc = "created" THEN "exited"
                                       ELSE "finally"]
    /\ UNCHANGED <<allowed_client_ip, tasks, pool, call>>

\* close_session, called by cleanup_session, the on_cleanup callback
close_session(srv) ==
    IF srv.session = "open" THEN [srv EXCEPT !.session = "closed"] ELSE srv

\* line 300: await runner.cleanup(), which runs the on_cleanup callbacks; a
\* closed session has closed its connector and every connection of it.  With
\* runner unassigned the line raises UnboundLocalError.
main_finally ==
    /\ server.pc = "finally"
    /\ IF server.runner
       THEN /\ server' = [close_session(server) EXCEPT !.pc = "exited"]
            /\ pool' = {}
       ELSE /\ server' = [server EXCEPT !.pc = "exited"]
            /\ pool' = pool
    /\ UNCHANGED <<allowed_client_ip, tasks, call>>

InitMain ==
    /\ allowed_client_ip \in {None, Some(AllowedIP)}
    /\ tasks = [i \in Tasks |-> IdleTask]
    /\ pool = {}
    /\ call = NoCall
    /\ server = Created

NextMain ==
    \/ main_log
    \/ main_runner
    \/ main_setup
    \/ main_start
    \/ \E e \in Raised : main_raise(e)
    \/ main_finally
    \/ server.pc = "serving" /\ Next

SpecMain == InitMain /\ [][NextMain]_vars

\* C19: on every shutdown path after the application has been created, an
\* interrupt and a server error during startup or serving included, the
\* upstream session is closed: once main is over no session and no pooled
\* connection remains open.
C19_SessionClosedOnShutdown ==
    server.pc = "exited" => (server.session = "closed" /\ pool = {})

=============================================================================
